---- MODULE Spec2Model ----
(***************************************************************************)
(* Model of Project01/PythonFiles/pocket_beagle_AI_low_jitter_movement.py  *)
(* (the Pong paddle controller).                                           *)
(*                                                                         *)
(* Units.  The program computes with Python floats; the model uses exact   *)
(* integers:                                                               *)
(*   - zones are the integers 0..7;                                        *)
(*   - positions (paddle_position, target, predicted) and speeds are in    *)
(*     hundredths of a zone (4.0 is 400, 0.18 is 18, 0.3 is 30);           *)
(*   - velocities are in hundredths of a zone per frame (0.5 is 50);       *)
(*   - the depth estimate ball_x_estimate is in 1/600 (0.5 is 300, 0.95 is *)
(*     570, 0.05 is 30), so that 0.95 * k / 30 is the integer 19 * k.      *)
(***************************************************************************)
EXTENDS Integers, Sequences, FiniteSets, TLC

VARIABLES
    pc,                             \* position of the running specification
    ball_zone,                      \* main: ball_zone
    ball_history,                   \* global ball_history
    velocity,                       \* result of calculate_ball_velocity
    ball_x_estimate,                \* global ball_x_estimate        (1/600)
    frames_since_direction_change,  \* global frames_since_direction_change
    x_pos,                          \* is_ball_approaching: x_pos    (1/600)
    ball_approaching,               \* main: ball_approaching
    target,                         \* main: target                  (1/100)
    difference,                     \* smooth_ai_move: difference    (1/100)
    action,                         \* main: action
    move_speed,                     \* main: move_speed              (1/100)
    paddle_position,                \* global paddle_position        (1/100)
    last_action,                    \* global last_action
    frames_in_same_direction,       \* global frames_in_same_direction
    paddle_up,                      \* value of output line PADDLE_UP
    paddle_down,                    \* value of output line PADDLE_DOWN
    \* observation variables (history the program does not keep)
    appended,                       \* every zone passed to update_ball_tracking
    prev_action,                    \* action returned by the previous call
    desired,                        \* desired_action of the latest call
    desired_run,                    \* consecutive latest calls with that desire
    prior_run,                      \* calls just before the latest with its desire
    reversal,                       \* the latest tick detected a reversal
    seg_prev,                       \* previous estimate in this interval, or -1
    seg_trend,                      \* direction of travel seen in this interval
    seg_monotone,                   \* the estimates of this interval are monotonic
    approach_changes,               \* changes of is_ball_approaching in the interval
    refused_run,                    \* consecutive latest calls the guard refused
    predicted_value,                \* predict_ball_position: predicted (1/100)
    interrupted_at,                 \* where the loop was interrupted, or "no"
    cleanup_log,                    \* cleanup: the steps attempted, with outcome
    fixed_target,                   \* the target held constant, or -1
    fixed_ticks,                    \* ticks made with the constant target
    fixed_side,                     \* side of that target the paddle was on
    fixed_held                      \* one of those ticks returned HOLD

trackVars  == <<ball_zone, ball_history, velocity, appended>>
depthVars  == <<ball_x_estimate, frames_since_direction_change, x_pos,
                ball_approaching, reversal, seg_prev, seg_trend, seg_monotone,
                approach_changes>>
smoothVars == <<target, difference, action, move_speed, last_action,
                frames_in_same_direction, prev_action, desired, desired_run,
                prior_run>>
driveVars  == <<paddle_position, paddle_up, paddle_down>>
fixedVars  == <<fixed_target, fixed_ticks, fixed_side, fixed_held>>
auxVars    == <<predicted_value, interrupted_at, cleanup_log, fixedVars>>
vars == <<pc, trackVars, depthVars, smoothVars, driveVars, refused_run, auxVars>>

-----------------------------------------------------------------------------
(* Program constants *)

ZONES == 8
HISTORY_SIZE == 8
FRAMES_TO_CROSS == 30
PREDICT_FRAMES == 10
DEAD_ZONE == 80
HOLD_ZONE == 30
MOVE_SPEED == 18
SWITCH_FRAMES == 3
PADDLE_START == 400

Actions == {"HOLD", "UP", "DOWN"}

Abs(x) == IF x < 0 THEN -x ELSE x
Min(a, b) == IF a < b THEN a ELSE b
Max(a, b) == IF a > b THEN a ELSE b

-----------------------------------------------------------------------------
(* update_ball_tracking: append, then drop the oldest entry beyond 8 *)

update_ball_tracking_keep_newest(h, z) ==
    LET a == Append(h, z)
    IN  IF Len(a) > HISTORY_SIZE THEN SubSeq(a, 1, HISTORY_SIZE) ELSE a

update_ball_tracking(h, z) ==
    LET a == Append(h, z)
    IN  IF Len(a) > HISTORY_SIZE THEN Tail(a) ELSE a

(* calculate_ball_velocity: average change over the last (up to) 3 samples *)

calculate_ball_velocity_whole(h) ==
    IF Len(h) < 2 THEN 0
    ELSE ((h[Len(h)] - h[1]) * 100) \div (Len(h) - 1)

calculate_ball_velocity(h) ==
    IF Len(h) < 2 THEN 0
    ELSE LET recent == IF Len(h) >= 3 THEN SubSeq(h, Len(h) - 2, Len(h)) ELSE h
             total_change == recent[Len(recent)] - recent[1]
             frames == Len(recent) - 1
         IN  IF Len(recent) < 2 THEN 0
             ELSE IF frames > 0 THEN (total_change * 100) \div frames ELSE 0

-----------------------------------------------------------------------------
(* predict_ball_position: 10 frames ahead, mirrored at the walls *)

reflect_upper_about_zones(predicted) == ZONES * 100 - (predicted - ZONES * 100)

reflect_upper_negates(predicted) == -predicted

reflect_upper(predicted) == (ZONES - 1) * 100 - (predicted - (ZONES - 1) * 100)

RECURSIVE bounce_off_walls(_)
bounce_off_walls(predicted) ==
    IF predicted < 0 THEN bounce_off_walls(-predicted)
    ELSE IF predicted >= ZONES * 100
         THEN bounce_off_walls(reflect_upper(predicted))
         ELSE predicted

clamp_prediction_unclamped(predicted) == predicted

clamp_prediction(predicted) == Max(0, Min((ZONES - 1) * 100, predicted))

predict_ball_position(current_zone, v) ==
    IF Abs(v) < 10 THEN current_zone * 100
    ELSE clamp_prediction(bounce_off_walls(current_zone * 100 + v * PREDICT_FRAMES))

-----------------------------------------------------------------------------
(* estimate_ball_x_position: depth from the frames since the last reversal *)

velocity_reversed_coarse(h) ==
    LET n == Len(h)
        current_vel == h[n] - h[n - 1]
        prev_vel == h[n - 1] - h[n - 2]
    IN  /\ Abs(current_vel) > 2
        /\ Abs(prev_vel) > 2
        /\ current_vel * prev_vel < 0

velocity_reversed(h) ==
    LET n == Len(h)
        current_vel == h[n] - h[n - 1]
        prev_vel == h[n - 1] - h[n - 2]
    IN  /\ Abs(current_vel) * 10 > 2
        /\ Abs(prev_vel) * 10 > 2
        /\ current_vel * prev_vel < 0

travel_progress_unbounded(frames) == frames

\* travel_progress * FRAMES_TO_CROSS: min(frames / 30.0, 1.0) in thirtieths
travel_progress(frames) == Min(frames, FRAMES_TO_CROSS)

travel_estimate_inclusive(est, frames) ==
    IF est >= 300
    THEN 570 - (travel_progress(frames) * 570) \div FRAMES_TO_CROSS
    ELSE 30 + (travel_progress(frames) * 570) \div FRAMES_TO_CROSS

\* 0.95 - progress * 0.95 on the far side, 0.05 + progress * 0.95 otherwise
travel_estimate(est, frames) ==
    IF est > 300
    THEN 570 - (travel_progress(frames) * 570) \div FRAMES_TO_CROSS
    ELSE 30 + (travel_progress(frames) * 570) \div FRAMES_TO_CROSS

estimate_ball_x_position_counts_short(h, est, frames) ==
    IF Len(h) < 3
    THEN [ret |-> 300, est |-> est,
          frames |-> IF Len(h) = 2 /\ h[2] # h[1] THEN frames + 1 ELSE frames,
          reversed |-> FALSE]
    ELSE LET current_vel == h[Len(h)] - h[Len(h) - 1]
             rev == velocity_reversed(h)
             f0 == IF rev THEN 0 ELSE frames
             e0 == IF rev THEN (IF est > 300 THEN 570 ELSE 30) ELSE est
             f1 == IF Abs(current_vel) * 10 > 1 THEN f0 + 1 ELSE f0
             e1 == travel_estimate(e0, f1)
         IN  [ret |-> e1, est |-> e1, frames |-> f1, reversed |-> rev]

estimate_ball_x_position(h, est, frames) ==
    IF Len(h) < 3
    THEN [ret |-> 300, est |-> est, frames |-> frames, reversed |-> FALSE]
    ELSE LET current_vel == h[Len(h)] - h[Len(h) - 1]
             rev == velocity_reversed(h)
             f0 == IF rev THEN 0 ELSE frames
             e0 == IF rev THEN (IF est > 300 THEN 570 ELSE 30) ELSE est
             f1 == IF Abs(current_vel) * 10 > 1 THEN f0 + 1 ELSE f0
             e1 == travel_estimate(e0, f1)
         IN  [ret |-> e1, est |-> e1, frames |-> f1, reversed |-> rev]

-----------------------------------------------------------------------------
(* calculate_target_position *)

calculate_target_position(h, zone) ==
    LET v == calculate_ball_velocity(h)
    IN  IF Abs(v) > 10 THEN predict_ball_position(zone, v) ELSE zone * 100

-----------------------------------------------------------------------------
(* smooth_ai_move: dead zone, then hysteresis on the direction *)

effective_difference(tgt, current_paddle, approaching) ==
    (IF approaching THEN tgt ELSE 400) - current_paddle

in_hold_zone_wide(diff) == Abs(diff) < DEAD_ZONE

in_hold_zone(diff) == Abs(diff) < DEAD_ZONE /\ Abs(diff) < HOLD_ZONE

desired_action_inverted(diff) == IF diff > 0 THEN "UP" ELSE "DOWN"

desired_action(diff) == IF diff < 0 THEN "UP" ELSE "DOWN"

hold_result_keep_state(last, frames) ==
    [action |-> "HOLD", speed |-> 0, last |-> last, frames |-> frames]

hold_result(last, frames) ==
    [action |-> "HOLD", speed |-> 0, last |-> "HOLD", frames |-> 0]

smooth_ai_move_refusal_uncounted(tgt, current_paddle, approaching, last, frames) ==
    LET diff == effective_difference(tgt, current_paddle, approaching)
        want == desired_action(diff)
    IN  IF in_hold_zone(diff)
        THEN hold_result(last, frames)
        ELSE IF want # last /\ last # "HOLD" /\ frames < SWITCH_FRAMES
        THEN [action |-> last, speed |-> MOVE_SPEED, last |-> last,
              frames |-> frames]
        ELSE [action |-> want, speed |-> MOVE_SPEED, last |-> want,
              frames |-> IF want = last THEN frames + 1 ELSE 0]

smooth_ai_move(tgt, current_paddle, approaching, last, frames) ==
    LET diff == effective_difference(tgt, current_paddle, approaching)
        want == desired_action(diff)
    IN  IF in_hold_zone(diff)
        THEN hold_result(last, frames)
        ELSE IF want # last /\ last # "HOLD" /\ frames < SWITCH_FRAMES
        THEN [action |-> last, speed |-> MOVE_SPEED, last |-> last,
              frames |-> frames + 1]
        ELSE [action |-> want, speed |-> MOVE_SPEED, last |-> want,
              frames |-> IF want = last THEN frames + 1 ELSE 0]

-----------------------------------------------------------------------------
(* execute_move: two output writes, then the position update *)

first_write(act) == IF act = "UP" THEN 1 ELSE 0

second_write_keeps_up(act) == IF act = "HOLD" THEN 0 ELSE 1

second_write(act) == IF act = "DOWN" THEN 1 ELSE 0

move_up_unclamped(position, speed) == position - speed

move_up(position, speed) == Max(0, position - speed)

move_down_unclamped(position, speed) == position + speed

move_down(position, speed) == Min((ZONES - 1) * 100, position + speed)

moved_position(act, speed, position) ==
    IF act = "UP" THEN move_up(position, speed)
    ELSE IF act = "DOWN" THEN move_down(position, speed)
    ELSE position

-----------------------------------------------------------------------------
(* Bounds of the model *)

MaxCalls == 9           \* update_ball_tracking calls explored by SpecTrack
TrackMaxZone == 2       \* zones sampled in SpecTrack are 0..TrackMaxZone
DepthMaxZone == 1       \* zones sampled in SpecDepth are 0..DepthMaxZone
MaxFrames == 32         \* cap of frames_since_direction_change in SpecDepth
MaxVelocity == 700      \* velocities given to SpecPredict, in hundredths

-----------------------------------------------------------------------------
(* The state after the module is loaded and setup_gpio has run *)

InitGlobals ==
    /\ ball_zone = 0
    /\ ball_history = <<>>
    /\ velocity = 0
    /\ ball_x_estimate = 300
    /\ frames_since_direction_change = 0
    /\ x_pos = 300
    /\ ball_approaching = FALSE
    /\ target = 400
    /\ difference = 0
    /\ action = "HOLD"
    /\ move_speed = 0
    /\ paddle_position = PADDLE_START
    /\ last_action = "HOLD"
    /\ frames_in_same_direction = 0
    /\ paddle_up = 0
    /\ paddle_down = 0

InitObservers ==
    /\ appended = <<>>
    /\ prev_action = "HOLD"
    /\ desired = "NONE"
    /\ desired_run = 0
    /\ prior_run = 0
    /\ reversal = FALSE
    /\ seg_prev = -1
    /\ seg_trend = 0
    /\ seg_monotone = TRUE
    /\ approach_changes = 0
    /\ refused_run = 0
    /\ predicted_value = 0
    /\ interrupted_at = "no"
    /\ cleanup_log = <<>>
    /\ fixed_target = -1
    /\ fixed_ticks = 0
    /\ fixed_side = 0
    /\ fixed_held = FALSE

-----------------------------------------------------------------------------
(* SpecTrack: the history buffer and the velocity estimator *)

TrackStep(z) ==
    /\ pc = "track"
    /\ Len(appended) < MaxCalls
    /\ ball_zone' = z
    /\ ball_history' = update_ball_tracking(ball_history, z)
    /\ appended' = Append(appended, z)
    /\ pc' = "velocity"
    /\ UNCHANGED <<velocity, depthVars, smoothVars, driveVars>>
    /\ UNCHANGED <<refused_run, auxVars>>

VelocityStep ==
    /\ pc = "velocity"
    /\ velocity' = calculate_ball_velocity(ball_history)
    /\ pc' = "track"
    /\ UNCHANGED <<ball_zone, ball_history, appended, depthVars, smoothVars,
                   driveVars>>
    /\ UNCHANGED <<refused_run, auxVars>>

InitTrack == InitGlobals /\ InitObservers /\ pc = "track"

NextTrack == (\E z \in 0..TrackMaxZone : TrackStep(z)) \/ VelocityStep

SpecTrack == InitTrack /\ [][NextTrack]_vars

\* C9: after n update_ball_tracking calls the history has length min(n, 8),
\* never more than HISTORY_SIZE, and holds the last min(n, 8) appended zones
\* in chronological order.
C9_HistoryIsLastEight ==
    LET n == Len(appended)
        k == Min(n, 8)
    IN  /\ Len(ball_history) = k
        /\ Len(ball_history) <= HISTORY_SIZE
        /\ \A i \in 1..k : ball_history[i] = appended[n - k + i]

\* a ninth zone has been appended and the dropped oldest zone differed from
\* the one that is now first
C9_Witness ==
    /\ Len(appended) = 9
    /\ appended[1] # appended[2]
    /\ appended[9] # appended[8]
    /\ Len(ball_history) = 8

\* C10: calculate_ball_velocity returns 0.0 for a history of fewer than 2
\* entries and (last - first) / (count - 1) over the last min(3, length)
\* entries otherwise, and changes no persistent state.
C10_VelocityWindow ==
    [][pc = "velocity" =>
        /\ UNCHANGED <<ball_history, ball_x_estimate,
                       frames_since_direction_change, paddle_position,
                       last_action, frames_in_same_direction>>
        /\ Len(ball_history) < 2 => velocity' = 0
        /\ Len(ball_history) >= 2 =>
             LET count == Min(3, Len(ball_history))
                 last == ball_history[Len(ball_history)]
                 first == ball_history[Len(ball_history) - count + 1]
             IN  velocity' * (count - 1) = (last - first) * 100]_vars

\* a velocity of -0.5 zone per frame was computed from a history of at least
\* four samples whose slope over the whole history is different
C10_Witness ==
    /\ pc = "track"
    /\ Len(ball_history) >= 4
    /\ velocity = -50
    /\ ball_history[1] < ball_history[Len(ball_history)]

-----------------------------------------------------------------------------
(* SpecPredict: predict_ball_position applied to one (zone, velocity) pair *)

PredictStep ==
    /\ pc = "predict"
    /\ target' = predict_ball_position(ball_zone, velocity)
    /\ pc' = "predicted"
    /\ UNCHANGED <<trackVars, depthVars, difference, action, move_speed,
                   last_action, frames_in_same_direction, prev_action, desired,
                   desired_run, prior_run, driveVars>>
    /\ UNCHANGED <<refused_run, auxVars>>

InitPredict ==
    /\ pc = "predict"
    /\ ball_zone \in 0..(ZONES - 1)
    /\ velocity \in (-MaxVelocity)..MaxVelocity
    /\ ball_history = <<>>
    /\ ball_x_estimate = 300
    /\ frames_since_direction_change = 0
    /\ x_pos = 300
    /\ ball_approaching = FALSE
    /\ target = 400
    /\ difference = 0
    /\ action = "HOLD"
    /\ move_speed = 0
    /\ paddle_position = PADDLE_START
    /\ last_action = "HOLD"
    /\ frames_in_same_direction = 0
    /\ paddle_up = 0
    /\ paddle_down = 0
    /\ InitObservers

NextPredict == PredictStep

SpecPredict == InitPredict /\ [][NextPredict]_vars

\* the velocities calculate_ball_velocity returns: a difference of two zones
\* over one frame (2 samples) or over two frames (3 samples)
ProducibleVelocities ==
    {(b - a) * 100 : a, b \in 0..(ZONES - 1)} \cup
    {((b - a) * 100) \div 2 : a, b \in 0..(ZONES - 1)}

\* the ball moved frame by frame, its velocity mirrored at the walls 0 and 7
RECURSIVE SimulateFrames(_, _, _)
SimulateFrames(position, v, frames) ==
    IF frames = 0 THEN position
    ELSE LET next == position + v
         IN  IF next < 0 THEN SimulateFrames(-next, -v, frames - 1)
             ELSE IF next > 700 THEN SimulateFrames(1400 - next, -v, frames - 1)
             ELSE SimulateFrames(next, v, frames - 1)

\* C7: for every zone and every velocity predict_ball_position returns a
\* value in [0, ZONES-1].
C7_PredictionInRange ==
    pc = "predicted" => (target >= 0 /\ target <= (ZONES - 1) * 100)

\* the raw prediction left the loop between 7 and 8 and was clamped to 7
C7_Witness ==
    /\ pc = "predicted"
    /\ ball_zone = 4
    /\ velocity = 37
    /\ target = 700

\* C8: for a velocity calculate_ball_velocity can produce with |v| >= 0.1 the
\* prediction equals 10 simulated single-frame moves with mirror reflection
\* at the walls 0 and 7; for |v| < 0.1 it is the zone unchanged.
C8_PredictionIsSimulation ==
    pc = "predicted" =>
        /\ (velocity \in ProducibleVelocities /\ Abs(velocity) >= 10) =>
               target = SimulateFrames(ball_zone * 100, velocity, 10)
        /\ Abs(velocity) < 10 => target = ball_zone * 100

\* zone 0 with velocity -1 is predicted at 4, after a bounce at each wall
C8_Witness ==
    /\ pc = "predicted"
    /\ ball_zone = 0
    /\ velocity = -100
    /\ target = 400

-----------------------------------------------------------------------------
(* execute_move, one step per statement; used by SpecDrive and SpecMove *)

\* paddle_up.set_value(...)
ExecFirstWrite ==
    /\ pc = "write1"
    /\ paddle_up' = first_write(action)
    /\ pc' = "write2"
    /\ UNCHANGED <<trackVars, depthVars, smoothVars, paddle_position,
                   paddle_down>>
    /\ UNCHANGED <<refused_run, auxVars>>

\* paddle_down.set_value(...)
ExecSecondWrite ==
    /\ pc = "write2"
    /\ paddle_down' = second_write(action)
    /\ pc' = IF action \in {"UP", "DOWN"} THEN "position" ELSE "tick"
    /\ UNCHANGED <<trackVars, depthVars, smoothVars, paddle_position,
                   paddle_up>>
    /\ UNCHANGED <<refused_run, auxVars>>

\* paddle_position = max(0, ...) / min(ZONES - 1, ...)
ExecPosition ==
    /\ pc = "position"
    /\ paddle_position' = moved_position(action, move_speed, paddle_position)
    /\ pc' = "tick"
    /\ UNCHANGED <<trackVars, depthVars, smoothVars, paddle_up, paddle_down>>
    /\ UNCHANGED <<refused_run, auxVars>>

-----------------------------------------------------------------------------
(* SpecDrive: execute_move called with any sequence of the three           *)
(* (action, speed) pairs smooth_ai_move returns                            *)

DriveCall(act) ==
    /\ pc = "tick"
    /\ action' = act
    /\ move_speed' = IF act = "HOLD" THEN 0 ELSE MOVE_SPEED
    /\ pc' = "write1"
    /\ UNCHANGED <<trackVars, depthVars, target, difference, last_action,
                   frames_in_same_direction, prev_action, desired, desired_run,
                   prior_run, driveVars>>
    /\ UNCHANGED <<refused_run, auxVars>>

InitDrive == InitGlobals /\ InitObservers /\ pc = "tick"

NextDrive ==
    \/ \E act \in Actions : DriveCall(act)
    \/ ExecFirstWrite
    \/ ExecSecondWrite
    \/ ExecPosition

SpecDrive == InitDrive /\ [][NextDrive]_vars

\* C5: paddle_position lies in [0, ZONES-1] after any sequence of ticks.
C5_PaddleInRange ==
    paddle_position >= 0 /\ paddle_position <= (ZONES - 1) * 100

\* the paddle was driven UP from less than one step above the wall 0
C5_Witness ==
    /\ pc = "tick"
    /\ action = "UP"
    /\ paddle_position = 0

\* C1: the outputs paddle_up and paddle_down are never both 1, also between
\* the two writes of one execute_move call.
C1_NeverBothAsserted == ~(paddle_up = 1 /\ paddle_down = 1)

-----------------------------------------------------------------------------
(* SpecMove: the second half of a tick of main.  The approach flag and the *)
(* target are any of the values the first half can hand over: a whole zone *)
(* when the ball approaches, 4.0 otherwise.                                *)

\* what a call wants: DOWN if the difference is >= 0, else UP, outside the
\* dead zone of 0.3 (observation only)
WantedDirection(diff) ==
    IF Abs(diff) < 30 THEN "NONE" ELSE IF diff >= 0 THEN "DOWN" ELSE "UP"

\* action, move_speed = smooth_ai_move(target, paddle_position, ball_approaching)
MoveSmooth(tgt, approaching) ==
    LET diff == effective_difference(tgt, paddle_position, approaching)
        r == smooth_ai_move(tgt, paddle_position, approaching, last_action,
                            frames_in_same_direction)
        want == WantedDirection(diff)
    IN  /\ pc = "tick"
        /\ target' = tgt
        /\ ball_approaching' = approaching
        /\ difference' = diff
        /\ action' = r.action
        /\ move_speed' = r.speed
        /\ last_action' = r.last
        /\ frames_in_same_direction' = r.frames
        /\ prev_action' = action
        /\ desired' = want
        /\ prior_run' = IF want = desired THEN desired_run ELSE 0
        /\ desired_run' =
               IF want = desired THEN Min(SWITCH_FRAMES, desired_run + 1) ELSE 1
        /\ refused_run' =
               IF want \notin {"NONE", r.action}
               THEN Min(SWITCH_FRAMES + 1, refused_run + 1) ELSE 0
        /\ pc' = "write1"
        /\ UNCHANGED <<trackVars, ball_x_estimate,
                       frames_since_direction_change, x_pos, reversal, seg_prev,
                       seg_trend, seg_monotone, approach_changes, driveVars>>
        /\ UNCHANGED auxVars

InitMove == InitGlobals /\ InitObservers /\ pc = "tick"

NextMove ==
    \/ \E z \in 0..(ZONES - 1) : MoveSmooth(z * 100, TRUE)
    \/ MoveSmooth(400, FALSE)
    \/ ExecFirstWrite
    \/ ExecSecondWrite
    \/ ExecPosition

SpecMove == InitMove /\ [][NextMove]_vars

\* C2: when one call returns UP and the next returns DOWN (or DOWN then UP),
\* at least 3 consecutive calls just before the one that returns the new
\* direction already wanted that direction.
C2_ReversalNeedsThreeTicks ==
    (/\ prev_action \in {"UP", "DOWN"}
     /\ action \in {"UP", "DOWN"}
     /\ action # prev_action) => prior_run >= 3

\* C6: a call with |difference| < 0.3 returns (HOLD, 0.0) and leaves
\* last_action = HOLD and frames_in_same_direction = 0, whatever the
\* smoother state was.
C6_DeadZoneHolds ==
    Abs(difference) < 30 =>
        /\ action = "HOLD"
        /\ move_speed = 0
        /\ last_action = "HOLD"
        /\ frames_in_same_direction = 0

\* a call in the dead zone, off centre, right after a call that returned UP
C6_Witness ==
    /\ pc = "write1"
    /\ prev_action = "UP"
    /\ difference # 0
    /\ Abs(difference) < 30
    /\ action = "HOLD"

-----------------------------------------------------------------------------
(* SpecDepth: the first half of a tick of main, update_ball_tracking        *)
(* followed by is_ball_approaching, on any sequence of sampled zones        *)

Sign(x) == IF x > 0 THEN 1 ELSE IF x < 0 THEN -1 ELSE 0

DepthTick(z) ==
    LET h == update_ball_tracking(ball_history, z)
        r == estimate_ball_x_position(h, ball_x_estimate,
                                      frames_since_direction_change)
        tracked == Len(h) >= 3
        fresh == r.reversed \/ seg_prev = -1
        step == Sign(r.est - seg_prev)
        crossed == (r.est > 300) # (seg_prev > 300)
    IN  /\ pc = "sample"
        /\ frames_since_direction_change < MaxFrames
        /\ ball_zone' = z
        /\ ball_history' = h
        /\ ball_x_estimate' = r.est
        /\ frames_since_direction_change' = r.frames
        /\ x_pos' = r.ret
        /\ ball_approaching' = (r.ret > 300)
        /\ reversal' = r.reversed
        /\ seg_prev' = IF tracked THEN r.est ELSE seg_prev
        /\ seg_trend' = IF ~tracked THEN seg_trend
                        ELSE IF fresh THEN 0
                        ELSE IF seg_trend = 0 THEN step ELSE seg_trend
        /\ seg_monotone' = IF ~tracked THEN seg_monotone
                           ELSE IF fresh THEN TRUE
                           ELSE seg_monotone /\ (step = 0 \/ seg_trend = 0
                                                 \/ step = seg_trend)
        /\ approach_changes' = IF ~tracked THEN approach_changes
                               ELSE IF fresh THEN 0
                               ELSE IF crossed THEN Min(2, approach_changes + 1)
                               ELSE approach_changes
        /\ pc' = "sample"
        /\ UNCHANGED <<velocity, appended, smoothVars, driveVars>>
        /\ UNCHANGED <<refused_run, auxVars>>

InitDepth == InitGlobals /\ InitObservers /\ pc = "sample"

NextDepth == \E z \in 0..DepthMaxZone : DepthTick(z)

SpecDepth == InitDepth /\ [][NextDepth]_vars

\* C3 as stated: once the history holds 3 samples every returned estimate
\* lies in [0.05, 0.95], never exactly 0.0 or 1.0.
C3_EstimateWithinMargins ==
    Len(ball_history) >= 3 => (x_pos >= 30 /\ x_pos <= 570)

\* C3 as amended: once the history holds 3 samples every returned estimate
\* lies in [0.0, 1.0], and it is exactly 0.0 or 1.0 when travel_progress has
\* saturated (frames_since_direction_change >= 30).
C3_EstimateWithinUnit ==
    Len(ball_history) >= 3 =>
        /\ x_pos >= 0 /\ x_pos <= 600
        /\ frames_since_direction_change >= FRAMES_TO_CROSS =>
               x_pos \in {0, 600}

\* travel_progress is saturated and the estimate is exactly 1.0
C3_Witness ==
    /\ Len(ball_history) >= 3
    /\ frames_since_direction_change > FRAMES_TO_CROSS
    /\ x_pos = 600

\* C4: between two detected reversals (and from startup) the estimates of
\* successive ticks are monotonic and is_ball_approaching changes value at
\* most once.
C4_MonotonicBetweenReversals == seg_monotone /\ approach_changes <= 1

\* C14: on a tick whose history has at least 3 samples and whose last two
\* single-step differences are nonzero with opposite signs, the frame count
\* restarts from 0 whatever it was (so it is 1 after the tick) and the
\* estimate is rebased on 0.95 if it was > 0.5 before the tick, else on 0.05,
\* before that tick's progress of 1/30 is applied.
C14_ReversalRestarts ==
    [][LET h == ball_history'
           n == Len(h)
       IN  (/\ n >= 3
            /\ h[n] # h[n - 1]
            /\ h[n - 1] # h[n - 2]
            /\ (h[n] - h[n - 1]) * (h[n - 1] - h[n - 2]) < 0)
           => /\ frames_since_direction_change' = 1
              /\ ball_x_estimate' = IF ball_x_estimate > 300
                                    THEN 570 - 19 ELSE 30 + 19]_vars

\* a reversal was detected after many frames, with the estimate above 0.5
\* before the tick
C14_Witness ==
    /\ reversal
    /\ seg_prev = 551
    /\ ball_x_estimate = 551
    /\ frames_since_direction_change = 1
    /\ Len(ball_history) = HISTORY_SIZE

\* C15: while the history holds fewer than 3 samples the estimator returns
\* 0.5 and leaves ball_x_estimate and frames_since_direction_change
\* unchanged, so is_ball_approaching is false on the first two ticks.
C15_ShortHistoryNeutral ==
    [][Len(ball_history') < 3 =>
          /\ x_pos' = 300
          /\ ~ball_approaching'
          /\ ball_x_estimate' = ball_x_estimate
          /\ frames_since_direction_change' =
                 frames_since_direction_change]_vars

\* the second tick, with a ball that moved between the two samples
C15_Witness ==
    /\ Len(ball_history) = 2
    /\ ball_history[1] # ball_history[2]
    /\ x_pos = 300
    /\ frames_since_direction_change = 0

\* C16: a call with |difference| >= 0.3, the band 0.3 <= |difference| < 0.8
\* included, returns UP or DOWN with speed 0.18; smooth_ai_move returns HOLD
\* if and only if |difference| < 0.3.
C16_HoldOnlyInDeadZone ==
    /\ Abs(difference) >= 30 => (action \in {"UP", "DOWN"} /\ move_speed = 18)
    /\ action = "HOLD" <=> Abs(difference) < 30

\* a call with a difference in the intermediate band that moved the paddle
C16_Witness ==
    /\ pc = "write1"
    /\ Abs(difference) >= 30
    /\ Abs(difference) < 80
    /\ action \in {"UP", "DOWN"}
    /\ move_speed = 18

\* C19: when last_action is UP or DOWN and the calls want the opposite
\* direction, the guard refuses at most 3 calls in a row: the opposite
\* direction is returned and committed no later than the 4th call, and on the
\* first such call when frames_in_same_direction is already >= 3.
C19_BoundedRefusal ==
    [][pc = "tick" =>
        LET want == WantedDirection(difference')
        IN  (/\ last_action \in {"UP", "DOWN"}
             /\ want \in {"UP", "DOWN"}
             /\ want # last_action)
            => /\ refused_run' <= 3
               /\ (refused_run = 3 \/ frames_in_same_direction >= 3) =>
                      (action' = want /\ last_action' = want)
               /\ action' \in {want, last_action}]_vars

\* the opposite direction is committed on the 4th call, after 3 refusals
C19_Witness ==
    /\ pc = "write1"
    /\ prior_run = 3
    /\ prev_action \in {"UP", "DOWN"}
    /\ action \in {"UP", "DOWN"}
    /\ action # prev_action
    /\ frames_in_same_direction = 0

\* C17: when an execute_move(action, speed) call has completed, UP left the
\* outputs at (1, 0) and paddle_position at max(0, old - speed), DOWN left
\* (0, 1) and min(7, old + speed), HOLD left (0, 0) and the position
\* unchanged; no other step modifies paddle_position.
C17_ExecuteMoveEffect ==
    [][/\ pc' = "tick" =>
              <<paddle_up', paddle_down'>> =
                  IF action = "UP" THEN <<1, 0>>
                  ELSE IF action = "DOWN" THEN <<0, 1>> ELSE <<0, 0>>
       /\ pc = "position" =>
              paddle_position' =
                  IF action = "UP"
                  THEN (IF paddle_position - move_speed < 0 THEN 0
                        ELSE paddle_position - move_speed)
                  ELSE IF action = "DOWN"
                  THEN (IF paddle_position + move_speed > 700 THEN 700
                        ELSE paddle_position + move_speed)
                  ELSE paddle_position
       /\ pc # "position" => paddle_position' = paddle_position
       /\ (pc = "write2" /\ action = "HOLD") => pc' = "tick"]_vars

\* a DOWN call completed at less than one step from the wall 7
C17_Witness ==
    /\ pc = "tick"
    /\ action = "DOWN"
    /\ paddle_position = 700
    /\ paddle_up = 0
    /\ paddle_down = 1

-----------------------------------------------------------------------------
(* Spec: the loop of main, one step per call.  SpecSteady is the same loop  *)
(* with a sensor that reads one zone for ever (ball_zone holds that zone    *)
(* from the start).                                                         *)

\* ball_zone = read_ball_zone(); update_ball_tracking(ball_zone)
MainSample(z) ==
    /\ pc = "tick"
    /\ ball_zone' = z
    /\ ball_history' = update_ball_tracking(ball_history, z)
    /\ pc' = "approach"
    /\ UNCHANGED <<velocity, appended, depthVars, smoothVars, driveVars,
                   refused_run, auxVars>>

\* ball_approaching = is_ball_approaching()
MainApproach ==
    LET r == estimate_ball_x_position(ball_history, ball_x_estimate,
                                      frames_since_direction_change)
    IN  /\ pc = "approach"
        /\ ball_x_estimate' = r.est
        /\ frames_since_direction_change' = r.frames
        /\ x_pos' = r.ret
        /\ ball_approaching' = (r.ret > 300)
        /\ reversal' = r.reversed
        /\ pc' = "target"
        /\ UNCHANGED <<trackVars, seg_prev, seg_trend, seg_monotone,
                       approach_changes, smoothVars, driveVars, refused_run,
                       auxVars>>

\* target = calculate_target_position(ball_zone) if approaching, else 4.0
MainTarget ==
    /\ pc = "target"
    /\ target' = IF ball_approaching
                 THEN calculate_target_position(ball_history, ball_zone)
                 ELSE 400
    /\ velocity' = IF ball_approaching
                   THEN calculate_ball_velocity(ball_history) ELSE velocity
    /\ pc' = "smooth"
    /\ UNCHANGED <<ball_zone, ball_history, appended, depthVars, difference,
                   action, move_speed, last_action, frames_in_same_direction,
                   prev_action, desired, desired_run, prior_run, driveVars,
                   refused_run, auxVars>>

\* action, move_speed = smooth_ai_move(target, paddle_position, ball_approaching)
MainSmooth ==
    LET diff == effective_difference(target, paddle_position, ball_approaching)
        r == smooth_ai_move(target, paddle_position, ball_approaching,
                            last_action, frames_in_same_direction)
        want == WantedDirection(diff)
    IN  /\ pc = "smooth"
        /\ difference' = diff
        /\ action' = r.action
        /\ move_speed' = r.speed
        /\ last_action' = r.last
        /\ frames_in_same_direction' = r.frames
        /\ prev_action' = action
        /\ desired' = want
        /\ prior_run' = IF want = desired THEN desired_run ELSE 0
        /\ desired_run' =
               IF want = desired THEN Min(SWITCH_FRAMES, desired_run + 1) ELSE 1
        /\ refused_run' =
               IF want \notin {"NONE", r.action}
               THEN Min(SWITCH_FRAMES + 1, refused_run + 1) ELSE 0
        /\ pc' = "write1"
        /\ UNCHANGED <<trackVars, depthVars, target, driveVars, auxVars>>

Init == InitGlobals /\ InitObservers /\ pc = "tick"

Next ==
    \/ \E z \in 0..(ZONES - 1) : MainSample(z)
    \/ MainApproach
    \/ MainTarget
    \/ MainSmooth
    \/ ExecFirstWrite
    \/ ExecSecondWrite
    \/ ExecPosition

Spec == Init /\ [][Next]_vars

SteadySample == MainSample(ball_zone)

InitSteady ==
    /\ pc = "tick"
    /\ ball_zone \in 0..(ZONES - 1)
    /\ ball_history = <<>>
    /\ velocity = 0
    /\ ball_x_estimate = 300
    /\ frames_since_direction_change = 0
    /\ x_pos = 300
    /\ ball_approaching = FALSE
    /\ target = 400
    /\ difference = 0
    /\ action = "HOLD"
    /\ move_speed = 0
    /\ paddle_position = PADDLE_START
    /\ last_action = "HOLD"
    /\ frames_in_same_direction = 0
    /\ paddle_up = 0
    /\ paddle_down = 0
    /\ InitObservers

\* (the position update of execute_move is not a step here: it is reached
\* only after an UP or DOWN write)
NextSteady ==
    \/ SteadySample
    \/ MainApproach
    \/ MainTarget
    \/ MainSmooth
    \/ ExecFirstWrite
    \/ ExecSecondWrite

SpecSteady == InitSteady /\ [][NextSteady]_vars

\* C13: from the initial state, if every sampled zone is the same value, then
\* on every tick the velocity is 0.0, the approach flag is false, the target
\* is 4.0, the action is (HOLD, 0.0), both outputs are 0 and paddle_position
\* stays 4.0.
C13_SteadyBallHolds ==
    /\ calculate_ball_velocity(ball_history) = 0
    /\ ~ball_approaching
    /\ x_pos <= 300
    /\ target = 400
    /\ action = "HOLD"
    /\ move_speed = 0
    /\ paddle_up = 0
    /\ paddle_down = 0
    /\ paddle_position = 400

\* eight or more ticks were made with the ball at zone 7 and the paddle is
\* still at the centre
C13_Witness ==
    /\ pc = "tick"
    /\ ball_zone = 7
    /\ ball_history = <<7, 7, 7, 7, 7, 7, 7, 7>>
    /\ ball_x_estimate = 30
    /\ paddle_position = 400

-----------------------------------------------------------------------------
(* SpecBounce: predict_ball_position with its while loop one iteration per  *)
(* step, for one (zone, velocity) pair                                      *)

\* the test of line 120 and the assignment of line 123
BounceEnter ==
    /\ pc = "predict"
    /\ IF Abs(velocity) < 10
       THEN /\ target' = ball_zone * 100
            /\ pc' = "predicted"
            /\ UNCHANGED predicted_value
       ELSE /\ predicted_value' = ball_zone * 100 + velocity * PREDICT_FRAMES
            /\ pc' = "loop"
            /\ UNCHANGED target
    /\ UNCHANGED <<trackVars, depthVars, difference, action, move_speed,
                   last_action, frames_in_same_direction, prev_action, desired,
                   desired_run, prior_run, driveVars, refused_run,
                   interrupted_at, cleanup_log, fixedVars>>

\* one iteration of the while loop
BounceReflect ==
    /\ pc = "loop"
    /\ predicted_value < 0 \/ predicted_value >= ZONES * 100
    /\ predicted_value' = IF predicted_value < 0 THEN -predicted_value
                          ELSE reflect_upper(predicted_value)
    /\ UNCHANGED <<pc, trackVars, depthVars, smoothVars, driveVars,
                   refused_run, interrupted_at, cleanup_log, fixedVars>>

\* the loop test fails: return max(0, min(ZONES - 1, predicted))
BounceReturn ==
    /\ pc = "loop"
    /\ ~(predicted_value < 0 \/ predicted_value >= ZONES * 100)
    /\ target' = clamp_prediction(predicted_value)
    /\ pc' = "predicted"
    /\ UNCHANGED <<trackVars, depthVars, difference, action, move_speed,
                   last_action, frames_in_same_direction, prev_action, desired,
                   desired_run, prior_run, driveVars, refused_run, auxVars>>

NextBounce == BounceEnter \/ BounceReflect \/ BounceReturn

\* the interpreter keeps executing the loop: weak fairness of its steps
SpecBounce == InitPredict /\ [][NextBounce]_vars /\ WF_vars(NextBounce)

-----------------------------------------------------------------------------
(* SpecShutdown: execute_move called in a loop that a KeyboardInterrupt or  *)
(* an exception can leave at any statement, followed by cleanup.  Each      *)
(* statement of cleanup succeeds or raises; a raising set_value may or may  *)
(* not have changed the line.                                               *)

cleanup_steps_release_early ==
    <<"paddle_up.set_value", "paddle_up.release", "paddle_down.set_value",
      "paddle_down.release", "ball_bit0.release", "ball_bit1.release",
      "ball_bit2.release", "chip0.close", "chip2.close">>

cleanup_steps ==
    <<"paddle_up.set_value", "paddle_down.set_value", "paddle_up.release",
      "paddle_down.release", "ball_bit0.release", "ball_bit1.release",
      "ball_bit2.release", "chip0.close", "chip2.close">>

\* except KeyboardInterrupt / except Exception: cleanup()
Interrupt ==
    /\ pc \in {"tick", "write1", "write2", "position"}
    /\ interrupted_at' = pc
    /\ pc' = "cleanup"
    /\ UNCHANGED <<trackVars, depthVars, smoothVars, driveVars, refused_run,
                   predicted_value, cleanup_log, fixedVars>>

\* the next statement of the try block of cleanup; the bare except ends
\* cleanup at the first statement that raises
CleanupStep(ok, written) ==
    LET step == cleanup_steps[Len(cleanup_log) + 1]
    IN  /\ pc = "cleanup"
        /\ ok => written
        /\ cleanup_log' = Append(cleanup_log, [step |-> step, ok |-> ok])
        /\ paddle_up' = IF step = "paddle_up.set_value" /\ written
                        THEN 0 ELSE paddle_up
        /\ paddle_down' = IF step = "paddle_down.set_value" /\ written
                          THEN 0 ELSE paddle_down
        /\ pc' = IF ok /\ Len(cleanup_log) + 1 < Len(cleanup_steps)
                 THEN "cleanup" ELSE "exited"
        /\ UNCHANGED <<trackVars, depthVars, smoothVars, paddle_position,
                       refused_run, predicted_value, interrupted_at,
                       fixedVars>>

InitShutdown == InitGlobals /\ InitObservers /\ pc = "tick"

NextShutdown ==
    \/ \E act \in Actions : DriveCall(act)
    \/ ExecFirstWrite
    \/ ExecSecondWrite
    \/ ExecPosition
    \/ Interrupt
    \/ \E ok, written \in BOOLEAN : CleanupStep(ok, written)

SpecShutdown == InitShutdown /\ [][NextShutdown]_vars

IsRelease(step) ==
    step \notin {"paddle_up.set_value", "paddle_down.set_value"}

\* C11: after an interruption at any point of a tick, cleanup has written 0
\* to both outputs before any release or close is performed, both outputs
\* are inactive from the first release on, and a failing release or close
\* does not change that.
C11_OutputsOffBeforeRelease ==
    (\E i \in 1..Len(cleanup_log) : IsRelease(cleanup_log[i].step)) =>
        /\ cleanup_log[1] = [step |-> "paddle_up.set_value", ok |-> TRUE]
        /\ cleanup_log[2] = [step |-> "paddle_down.set_value", ok |-> TRUE]
        /\ paddle_up = 0
        /\ paddle_down = 0

\* the loop was interrupted between the two writes of an UP call, cleanup
\* switched both outputs off and its first release raised
C11_Witness ==
    /\ pc = "exited"
    /\ interrupted_at = "write2"
    /\ action = "UP"
    /\ Len(cleanup_log) = 3
    /\ ~cleanup_log[3].ok
    /\ paddle_up = 0
    /\ paddle_down = 0

\* C12: in cleanup a set_value(0) is attempted on each of the two outputs
\* whichever other step fails, the write to the other output included, and
\* cleanup always returns normally.
C12_BothWritesAttempted ==
    pc = "exited" =>
        /\ \E i \in 1..Len(cleanup_log) :
               cleanup_log[i].step = "paddle_up.set_value"
        /\ \E i \in 1..Len(cleanup_log) :
               cleanup_log[i].step = "paddle_down.set_value"

-----------------------------------------------------------------------------
(* SpecSettle: the second half of a tick of main, one step per tick.  The   *)
(* target is free (as in SpecMove) until it is fixed at one value; from     *)
(* then on every tick has that effective target.                            *)

\* action, move_speed = smooth_ai_move(...); execute_move(action, move_speed)
TickEffect(tgt, approaching) ==
    LET r == smooth_ai_move(tgt, paddle_position, approaching, last_action,
                            frames_in_same_direction)
    IN  /\ target' = tgt
        /\ ball_approaching' = approaching
        /\ difference' = effective_difference(tgt, paddle_position, approaching)
        /\ action' = r.action
        /\ move_speed' = r.speed
        /\ last_action' = r.last
        /\ frames_in_same_direction' = r.frames
        /\ paddle_up' = first_write(r.action)
        /\ paddle_down' = second_write(r.action)
        /\ paddle_position' = moved_position(r.action, r.speed, paddle_position)
        /\ UNCHANGED <<pc, trackVars, ball_x_estimate,
                       frames_since_direction_change, x_pos, reversal, seg_prev,
                       seg_trend, seg_monotone, approach_changes, prev_action,
                       desired, desired_run, prior_run, refused_run,
                       predicted_value, interrupted_at, cleanup_log>>

\* ticks in which the settled state is declared reached at the latest: the
\* refusals, the way across the field, and the call that returns HOLD
SettleTicks == SWITCH_FRAMES + ((ZONES - 1) * 100) \div MOVE_SPEED + 1

FreeTick(tgt, approaching) ==
    /\ pc = "tick"
    /\ fixed_target = -1
    /\ TickEffect(tgt, approaching)
    /\ UNCHANGED fixedVars

FixTarget(tgt) ==
    /\ pc = "tick"
    /\ fixed_target = -1
    /\ fixed_target' = tgt
    /\ fixed_ticks' = 0
    /\ fixed_side' = Sign(paddle_position - tgt)
    /\ fixed_held' = FALSE
    /\ UNCHANGED <<pc, trackVars, depthVars, smoothVars, driveVars,
                   refused_run, predicted_value, interrupted_at, cleanup_log>>

FixedTick ==
    /\ pc = "tick"
    /\ fixed_target # -1
    /\ fixed_ticks < SettleTicks + 2
    /\ TickEffect(fixed_target, TRUE)
    /\ fixed_ticks' = fixed_ticks + 1
    /\ fixed_held' = (fixed_held \/ action' = "HOLD")
    /\ UNCHANGED <<fixed_target, fixed_side>>

InitSettle == InitGlobals /\ InitObservers /\ pc = "tick"

NextSettle ==
    \/ \E z \in 0..(ZONES - 1) : FreeTick(z * 100, TRUE)
    \/ FreeTick(400, FALSE)
    \/ \E z \in 0..(ZONES - 1) : FixTarget(z * 100)
    \/ FixedTick

SpecSettle == InitSettle /\ [][NextSettle]_vars

\* C20: once the effective target stays at one value, the action is HOLD
\* after a bounded number of ticks and stays HOLD, with the paddle within 0.3
\* of the target, and the paddle never gets to the other side of the target.
C20_SettlesOnFixedTarget ==
    fixed_target # -1 =>
        /\ fixed_ticks >= SettleTicks => fixed_held
        /\ fixed_held => /\ action = "HOLD"
                         /\ Abs(paddle_position - fixed_target) < 30
        /\ (paddle_position - fixed_target) * fixed_side >= 0

\* the target was fixed at zone 0 while the paddle was going DOWN; the paddle
\* came back and holds near 0
C20_Witness ==
    /\ fixed_target = 0
    /\ fixed_held
    /\ fixed_ticks = SettleTicks
    /\ action = "HOLD"
    /\ paddle_position < 30

====
